---- MODULE Spec2Model ----
(***************************************************************************)
(* State-machine model of gradescope-online-assignment-export:             *)
(*   src/api/client.py  GradescopeWebDriver (login, visit, print, ...)     *)
(*   src/export.py      is_online_assignment, export_current_page,         *)
(*                      crawl_assignments, main                            *)
(* Strings (URLs, file names) are sequences of tokens; a token is a chunk  *)
(* of characters and the string is the concatenation of its tokens.        *)
(***************************************************************************)
EXTENDS Integers, Sequences, FiniteSets, TLC

VARIABLES
    pc,           \* position of the running function
    result,       \* "running", "True" (login returned True), or the exception raised
    cookie_file,  \* self.cookie_file: None or a path
    disk,         \* content of the cookie file on disk
    email,        \* login's email argument (None when the environment has none)
    password,     \* login's password argument
    jar,          \* cookie jar of the selenium driver: name -> value
    session,      \* cookies of the requests.Session in use: name -> value
    add_calls,    \* driver.add_cookie calls made so far, with the loop that made them
    http,         \* requests to the login endpoint and their answers, in order
    prompts,      \* interactive prompts shown so far, in order
    file_writes,  \* cookie mappings written to the cookie file, in order
    token,        \* authenticity token read from the login form
    folder,       \* output folder
    course_url,   \* crawl_assignments' course_url / main's url
    asked,        \* the last URL typed at a prompt
    page,         \* driver.page_source: the elements of the current document
    assignments,  \* crawl_assignments' list of {"url", "name"}
    idx,          \* number of assignments the crawl loop has finished
    driver_log,   \* driver calls (get, execute_script, print_page + file write), in order
    exports,      \* calls of export_current_page so far: the assignment passed
    input_name,   \* main's input_pdf_file as typed
    detected      \* last value returned by is_online_assignment

vars == << pc, result, cookie_file, disk, email, password, jar, session, add_calls,
           http, prompts, file_writes, token, folder, course_url, asked, page,
           assignments, idx, driver_log, exports, input_name, detected >>

loginVars == << cookie_file, disk, email, password, jar, session, add_calls, http,
                file_writes, token >>

exportVars == << folder, course_url, asked, page, assignments, idx, driver_log, exports,
                 input_name, detected >>

----------------------------------------------------------------------------
(* Values shared by the whole program *)

None == "None"

BASE_URL == "https://www.gradescope.com"

OTHER_HOST == "https://host"

ValidWarning == "You must be logged out to access this page."

OtherWarning == "You need to sign in or sign up before continuing."

NoField == "<no warning field>"

----------------------------------------------------------------------------
(* Cookie mappings: dict name -> value *)

CookieNames == {"_gradescope_session", "signed_token"}

CookieValues == {"s1", "s2"}

EmptyCookies == [n \in {} |-> "s1"]

CookieMaps == UNION {[S -> CookieValues] : S \in SUBSET CookieNames}

\* for name, value in m.items(): self.driver.add_cookie({"name": name, "value": value})
AddCookies(j, m) ==
    [n \in DOMAIN j \cup DOMAIN m |-> IF n \in DOMAIN m THEN m[n] ELSE j[n]]

\* the add_cookie calls one such loop makes
CookieCalls(m, at) == {[at |-> at, name |-> n, value |-> m[n]] : n \in DOMAIN m}

----------------------------------------------------------------------------
(* Cookie file on disk *)

DiskContents ==
    {[kind |-> "absent", data |-> EmptyCookies],
     [kind |-> "malformed", data |-> EmptyCookies]}
    \cup {[kind |-> "mapping", data |-> m] : m \in CookieMaps}

\* os.path.isfile(self.cookie_file) for a path
IsFile(d) == d.kind # "absent"

----------------------------------------------------------------------------
(* HTTP responses.  A body is described by what the code reads from it:    *)
(*   json      how json.loads takes it: "invalid" (JSONDecodeError),       *)
(*             "object" (a dict), "other" (a list, number, string, null)   *)
(*   warning   the dict's "warning" entry, or NoField                      *)
(*   login_btn whether the HTML has <input type=submit value="Log In">     *)
(*   form      "none": no <form>, "notoken": a form without the hidden     *)
(*             authenticity_token input, else the token's value            *)
(*   ok        response.ok                                                 *)
(*   alert     text of the ".alert-error span" elements: "none" when there *)
(*             are none, "invalid" when one contains "Invalid              *)
(*             email/password combination", "other" otherwise              *)
(*   timeout   the request raised requests.Timeout after 20 seconds        *)
(***************************************************************************)

Resp(j, w, b, f, o, a, t) ==
    [json |-> j, warning |-> w, login_btn |-> b, form |-> f, ok |-> o, alert |-> a,
     timeout |-> t]

JsonResponses ==
    {Resp("object", w, FALSE, "none", TRUE, "none", FALSE) :
        w \in {ValidWarning, OtherWarning, NoField}}
    \cup {Resp("other", NoField, FALSE, "none", TRUE, "none", FALSE)}

HtmlResponses ==
    {Resp("invalid", NoField, b, f, o, a, FALSE) :
        b \in BOOLEAN, f \in {"none", "notoken", "tok1"}, o \in BOOLEAN,
        a \in {"none", "invalid", "other"}}

TimeoutResponse == Resp("invalid", NoField, FALSE, "none", FALSE, "none", TRUE)

\* what the login endpoint may answer to the validation GET
ValidationResponses ==
    JsonResponses
    \cup {r \in HtmlResponses : r.ok /\ r.alert = "none" /\ r.form \in {"none", "tok1"}
                                /\ (r.login_btn => r.form = "tok1")}
    \cup {TimeoutResponse}

\* what it may answer to the fresh GET of the login page
LoginPageResponses ==
    {r \in HtmlResponses : r.ok /\ r.alert = "none" /\ r.login_btn = (r.form # "none")}
    \cup {TimeoutResponse}

\* what it may answer to the login POST
PostResponses ==
    {r \in HtmlResponses : r.form = "none" /\ ~r.login_btn}
    \cup {TimeoutResponse}

\* one request to login_url: the method, the session it goes through (the one holding
\* the restored cookies or a new one) and the answer
Request(method, sess, r) == [method |-> method, session |-> sess, resp |-> r]

Emails == {"user@example.edu"}

Passwords == {"hunter2"}

----------------------------------------------------------------------------
(* Driver calls *)

\* q[-1]
Last(q) == q[Len(q)]

\* arg: the URL, script or output file passed; content: the page source returned
Call(op, arg, content) == [op |-> op, arg |-> arg, content |-> content]

\* GradescopeWebDriver.visit: self.driver.get(url)
Visit(log, url) == Append(log, Call("get", url, << >>))

\* GradescopeWebDriver.get_content: self.driver.page_source
GetContent(log, content) == Append(log, Call("page_source", << >>, content))

\* GradescopeWebDriver.execute_script: self.driver.execute_script(script)
ExecuteScript_m(log, script) == log

ExecuteScript(log, script) == Append(log, Call("execute_script", script, << >>))

\* GradescopeWebDriver.print(output_file): print_page, then the bytes are written
PrintToFile(log, output_file) == Append(log, Call("print", output_file, << >>))

----------------------------------------------------------------------------
(* GradescopeWebDriver.login *)

\* lines 64-89: what login does with the answer to the validation GET
ValidationOutcome_m(r) ==
    IF r.timeout THEN "Timeout"
    ELSE IF r.json = "other" THEN "TypeError"
    ELSE IF r.json = "object" /\ r.warning = NoField THEN "KeyError"
    ELSE IF r.json = "object" /\ r.warning = ValidWarning THEN "fallthrough"
    ELSE IF ~r.login_btn THEN "True"
    ELSE "fallthrough"

ValidationOutcome(r) ==
    IF r.timeout THEN "Timeout"
    \* json_response["warning"] on a list, number, string or null
    ELSE IF r.json = "other" THEN "TypeError"
    \* json_response["warning"] on a dict without the key; only JSONDecodeError is caught
    ELSE IF r.json = "object" /\ r.warning = NoField THEN "KeyError"
    ELSE IF r.json = "object" /\ r.warning = ValidWarning THEN "True"
    \* soup.find("input", {"value": "Log In", "type": "submit"}) is None
    ELSE IF ~r.login_btn THEN "True"
    ELSE "fallthrough"

\* lines 129-137: whether the answer to the login POST makes login raise
LoginFailed_m(r) == ~r.ok

LoginFailed(r) == ~r.ok \/ r.alert = "invalid"

Raise(exc) ==
    /\ pc' = "raised"
    /\ result' = exc

\* line 51: if os.path.isfile(self.cookie_file)
LoginStart ==
    /\ pc = "login"
    /\ IF cookie_file = None
       THEN Raise("TypeError")     \* os.stat(None)
       ELSE /\ pc' = IF IsFile(disk) THEN "restore" ELSE "credentials"
            /\ UNCHANGED result
    /\ UNCHANGED << loginVars, exportVars, prompts >>

\* lines 52-62: json.load of the cookie file, visit(BASE_URL), add_cookie for each item
RestoreCookies ==
    /\ pc = "restore"
    /\ IF disk.kind = "malformed"
       THEN /\ Raise("JSONDecodeError")
            /\ UNCHANGED << jar, add_calls, driver_log >>
       ELSE /\ driver_log' = Visit(driver_log, << BASE_URL >>)
            /\ jar' = AddCookies(jar, disk.data)
            /\ add_calls' = add_calls \cup CookieCalls(disk.data, "restore")
            /\ pc' = "validate"
            /\ UNCHANGED result
    /\ UNCHANGED << cookie_file, disk, email, password, session, http, file_writes,
                    token, prompts, folder, course_url, asked, page, assignments,
                    idx, exports, input_name, detected >>

\* lines 64-89: session.get(login_url) with the restored cookies, and its verdict
ValidateSession ==
    /\ pc = "validate"
    /\ \E r \in ValidationResponses :
        /\ session' = disk.data
        /\ http' = Append(http, Request("GET", "restored", r))
        /\ LET o == ValidationOutcome(r) IN
           IF o = "fallthrough"
           THEN pc' = "credentials" /\ UNCHANGED result
           ELSE IF o = "True"
           THEN pc' = "done" /\ result' = "True"
           ELSE Raise(o)
    /\ UNCHANGED << cookie_file, disk, email, password, jar, add_calls, file_writes,
                    token, prompts, exportVars >>

\* lines 91-96: ask for what the environment did not give
CollectCredentials ==
    /\ pc = "credentials"
    /\ \E e \in Emails, p \in Passwords :
        /\ email' = IF email = None THEN e ELSE email
        /\ password' = IF password = None THEN p ELSE password
    /\ prompts' = prompts
                  \o (IF email = None THEN << "Gradescope email" >> ELSE << >>)
                  \o (IF password = None THEN << "Gradescope password: " >> ELSE << >>)
    /\ pc' = "fetch"
    /\ UNCHANGED << result, cookie_file, disk, jar, session, add_calls, http,
                    file_writes, token, exportVars >>

\* lines 102-110: a new Session, GET of the login page, the form's authenticity_token
FetchLoginPage ==
    /\ pc = "fetch"
    /\ \E r \in LoginPageResponses :
        /\ session' = EmptyCookies
        /\ http' = Append(http, Request("GET", "new", r))
        /\ IF r.timeout
           THEN Raise("Timeout") /\ UNCHANGED token
           ELSE IF r.form \in {"none", "notoken"}
           THEN Raise("AttributeError") /\ UNCHANGED token   \* None.find / None.get
           ELSE /\ token' = r.form
                /\ pc' = "post"
                /\ UNCHANGED result
    /\ UNCHANGED << cookie_file, disk, email, password, jar, add_calls, file_writes,
                    prompts, exportVars >>

\* lines 112-152: the login POST, its checks, the cookie copy and the cookie file
PostLogin ==
    /\ pc = "post"
    /\ \E r \in PostResponses, m \in CookieMaps :
        /\ http' = Append(http, Request("POST", "new", r))
        /\ session' = m
        /\ IF r.timeout
           THEN /\ Raise("Timeout")
                /\ UNCHANGED << jar, add_calls, driver_log, disk, file_writes >>
           ELSE IF LoginFailed(r)
           THEN /\ Raise("RuntimeError")
                /\ UNCHANGED << jar, add_calls, driver_log, disk, file_writes >>
           ELSE /\ driver_log' = Visit(driver_log, << BASE_URL >>)
                /\ jar' = AddCookies(jar, m)
                /\ add_calls' = add_calls \cup CookieCalls(m, "copy")
                /\ IF cookie_file # None
                   THEN /\ disk' = [kind |-> "mapping", data |-> m]
                        /\ file_writes' = Append(file_writes, m)
                   ELSE UNCHANGED << disk, file_writes >>
                /\ pc' = "done"
                /\ result' = "True"
    /\ UNCHANGED << cookie_file, email, password, token, prompts, folder, course_url,
                    asked, page, assignments, idx, exports, input_name, detected >>

----------------------------------------------------------------------------
(* Values of the export variables while no export runs *)

NoPage == << >>

ExportIdle ==
    /\ folder = << "pdf" >>
    /\ course_url = << >>
    /\ asked = << >>
    /\ page = NoPage
    /\ assignments = << >>
    /\ idx = 0
    /\ exports = << >>
    /\ input_name = << >>
    /\ detected = FALSE

\* GradescopeWebDriver.__init__: a fresh driver, then login with the environment's
\* GRADESCOPE_EMAIL and GRADESCOPE_PASSWORD
InitLogin ==
    /\ pc = "login"
    /\ result = "running"
    /\ cookie_file \in {None, "cookies.json"}
    /\ disk \in DiskContents
    /\ cookie_file = None => disk.kind = "absent"
    /\ email \in {None} \cup Emails
    /\ password \in {None} \cup Passwords
    /\ jar = EmptyCookies
    /\ session = EmptyCookies
    /\ add_calls = {}
    /\ http = << >>
    /\ prompts = << >>
    /\ file_writes = << >>
    /\ token = None
    /\ driver_log = << >>
    /\ ExportIdle

NextLogin ==
    \/ LoginStart
    \/ RestoreCookies
    \/ ValidateSession
    \/ CollectCredentials
    \/ FetchLoginPage
    \/ PostLogin

SpecLogin == InitLogin /\ [][NextLogin]_vars

----------------------------------------------------------------------------
(* Properties of login *)

Posted == \E i \in 1..Len(http) : http[i].method = "POST"

\* the cookies were restored and the validation GET was answered
Validated == Len(http) >= 1 /\ http[1].session = "restored"

CopiedFromSession == {c \in add_calls : c.at = "copy"}

\* the answer to the login POST is a failed login (lines 129 and 136)
PostRejected ==
    /\ Posted
    /\ ~Last(http).resp.timeout
    /\ (~Last(http).resp.ok \/ Last(http).resp.alert = "invalid")

\* C1: when the login POST returns a non-success status, or an error alert saying
\* "Invalid email/password combination", login raises (it returns nothing), no cookie
\* file is written and no cookie of the new session is copied into the driver.
C1_FailedLoginIsFatal ==
    PostRejected =>
        /\ pc = "raised"
        /\ result = "RuntimeError"
        /\ file_writes = << >>
        /\ CopiedFromSession = {}
        /\ \A n \in DOMAIN jar : \E c \in add_calls : c.at = "restore" /\ c.name = n
                                                      /\ c.value = jar[n]

C1_Witness ==
    /\ PostRejected
    /\ Last(http).resp.ok
    /\ Last(http).resp.alert = "invalid"
    /\ session # EmptyCookies
    /\ cookie_file # None
    /\ result = "RuntimeError"

ValidationConfirmed ==
    /\ Validated
    /\ http[1].resp.json = "object"
    /\ http[1].resp.warning = ValidWarning

\* C2: when the cookie file exists and the validation GET answers JSON whose warning
\* is exactly "You must be logged out to access this page.", login returns True at
\* once: no prompt, no login POST, no write of the cookie file, and the driver holds
\* the restored cookies.
C2_ValidSessionReturnsAtOnce ==
    ValidationConfirmed =>
        /\ pc = "done"
        /\ result = "True"
        /\ prompts = << >>
        /\ Len(http) = 1
        /\ ~Posted
        /\ file_writes = << >>
        /\ disk.kind = "mapping"
        /\ jar = disk.data
        /\ add_calls = CookieCalls(disk.data, "restore")

C2_Witness ==
    /\ ValidationConfirmed
    /\ result = "True"
    /\ email = None
    /\ password = None
    /\ DOMAIN jar = CookieNames

\* the restored cookies failed validation with a JSON answer lacking the expected warning
JsonWithoutExpectedWarning ==
    /\ Validated
    /\ ~http[1].resp.timeout
    /\ http[1].resp.json = "object"
    /\ http[1].resp.warning # ValidWarning

LoginFormShown ==
    /\ Validated
    /\ ~http[1].resp.timeout
    /\ http[1].resp.json = "invalid"
    /\ http[1].resp.login_btn

\* C3: when the restored cookies fail validation (the login form is shown, or the
\* answer is JSON without the expected warning), login neither raises at the
\* validation nor reports the session as valid: it goes on to collect credentials
\* (a prompt only for what is absent) and performs the credential login.
C3_FailedValidationFallsThrough ==
    (LoginFormShown \/ JsonWithoutExpectedWarning) =>
        /\ result \notin {"KeyError", "TypeError"}
        /\ result = "True" => Posted
        /\ Len(http) = 1 => pc = "credentials"

\* C9: when validation of the restored cookies fails and the credential login then
\* succeeds, the driver's jar holds only the cookies of the new session and the cookie
\* file holds exactly the new session's mapping.
C9_RestoredCookiesDiscarded ==
    (Validated /\ Posted /\ result = "True") =>
        /\ jar = session
        /\ disk = [kind |-> "mapping", data |-> session]

\* C10: without a cookie-file path login skips the restoration, logs in with the
\* credentials and returns True without writing a file; with a path that names no
\* file it skips the restoration and writes the session's cookies after the login.
C10_CookieFileOptional ==
    /\ cookie_file = None =>
        /\ result # "TypeError"
        /\ file_writes = << >>
        /\ ~Validated
        /\ pc = "done" => result = "True" /\ Posted
    /\ (cookie_file # None /\ ~Validated /\ pc = "done") =>
        /\ result = "True"
        /\ Posted
        /\ file_writes = << session >>
        /\ disk = [kind |-> "mapping", data |-> session]

----------------------------------------------------------------------------
(* Strings as token sequences *)

MaxUrlLen == 4

MaxNameLen == 3

MaxElems == 2

MaxLinks == 3

MaxPrompts == 3

Seqs(S, n) == UNION {[1..k -> S] : k \in 0..n}

Max(S) == CHOOSE x \in S : \A y \in S : y <= x

Digits == {"1", "2"}

\* tokens that begin, and tokens that end, with the character "/"
SlashFirst == {"/", "/courses/"}

SlashLast == {"/", "/courses/", "courses/"}

\* a + b for strings, keeping one tokenisation for one string
Cat(a, b) ==
    IF a # << >> /\ b # << >> /\ Last(a) = "/" /\ b[1] = "courses/"
    THEN SubSeq(a, 1, Len(a) - 1) \o << "/courses/" >> \o Tail(b)
    ELSE a \o b

\* "assignments" in course_url
Contains(u, t) == \E i \in 1..Len(u) : u[i] = t

\* the digits of u from position i on: what (\d+) takes
RECURSIVE DigitRun(_, _)
DigitRun(u, i) ==
    IF i > Len(u) \/ u[i] \notin Digits THEN << >>
    ELSE << u[i] >> \o DigitRun(u, i + 1)

\* re.match(r".*/courses/(\d+)", course_url): the places where "/courses/" is followed
\* by a digit; the greedy ".*" makes the match end at the last of them
CourseMatches(u) == {i \in 1..Len(u) : u[i] = "/courses/" /\ i < Len(u) /\ u[i + 1] \in Digits}

\* course_id_match.group(1), << >> when there is no match
CourseId_m(u) ==
    IF CourseMatches(u) = {} THEN << >> ELSE << u[Max(CourseMatches(u)) + 1] >>

CourseId(u) ==
    IF CourseMatches(u) = {} THEN << >> ELSE DigitRun(u, Max(CourseMatches(u)) + 1)

\* urllib.parse.urljoin removes the empty segments in the middle of the path
RECURSIVE Collapse(_)
Collapse(path) ==
    IF Len(path) <= 1 THEN path
    ELSE LET front == Collapse(SubSeq(path, 1, Len(path) - 1)) IN
         IF Last(path) = "/" /\ Last(front) \in SlashLast THEN front
         ELSE Append(front, Last(path))

\* the path up to and with its last "/": the directory a relative reference is merged into
Directory(path) ==
    LET S == {i \in 1..Len(path) : path[i] \in SlashLast} IN
    IF S = {} THEN << "/" >> ELSE SubSeq(path, 1, Max(S))

\* urllib.parse.urljoin(base, ref) for a base that starts with scheme and host, and a
\* reference without query or fragment
UrlJoin(base, ref) ==
    IF ref = << >> THEN base
    ELSE IF ref[1] \in {BASE_URL, OTHER_HOST} THEN ref
    ELSE IF ref[1] \in SlashFirst THEN << base[1] >> \o Collapse(ref)
    ELSE << base[1] >> \o Collapse(Cat(Directory(Tail(base)), ref))

\* line 112: urljoin(BASE_URL, f"courses/{course_id}/assignments")
CourseAssignmentsUrl(course_id) ==
    UrlJoin(<< BASE_URL >>, << "courses/" >> \o course_id \o << "/", "assignments" >>)

\* lines 134-135: assignment_url and outline_url
OutlineUrl_m(href) ==
    UrlJoin(UrlJoin(<< BASE_URL >>, href), << "outline/edit" >>)

OutlineUrl(href) ==
    UrlJoin(Cat(UrlJoin(<< BASE_URL >>, href), << "/" >>), << "outline/edit" >>)

----------------------------------------------------------------------------
(* File names *)

NameTokens == {"/", ".", "pdf", "hw"}

RFind(s, t) == IF Contains(s, t) THEN Max({i \in 1..Len(s) : s[i] = t}) ELSE 0

\* os.path.splitext(p)[1]: from the last dot of the last component, unless that
\* component has nothing but dots before it
SplitExt_m(p) ==
    IF RFind(p, ".") > 0 THEN SubSeq(p, RFind(p, "."), Len(p)) ELSE << >>

SplitExt(p) ==
    LET sepIndex == RFind(p, "/")
        dotIndex == RFind(p, ".")
    IN  IF dotIndex > sepIndex /\ \E k \in (sepIndex + 1)..(dotIndex - 1) : p[k] # "."
        THEN SubSeq(p, dotIndex, Len(p))
        ELSE << >>

\* os.path.join(a, b)
PathJoin(a, b) ==
    IF b # << >> /\ b[1] = "/" THEN b
    ELSE IF a = << >> \/ Last(a) = "/" THEN a \o b
    ELSE a \o << "/" >> \o b

\* lines 176-177: input_pdf_file with '.pdf' added unless splitext finds it
PdfName(name) ==
    IF SplitExt(name) # << ".", "pdf" >> THEN name \o << ".", "pdf" >> ELSE name

\* line 80: os.path.join(folder, assignment["name"] + ".pdf")
PdfFile(dir, name) == PathJoin(dir, name \o << ".", "pdf" >>)

Folders == {<< "pdf" >>, << "out", "/" >>}

----------------------------------------------------------------------------
(* Pages: the elements of the document, in document order *)

Marker == "onlineAssignment"

Element(tag, classes, href, text, primary) ==
    [tag |-> tag, classes |-> classes, href |-> href, text |-> text,
     primary |-> primary]

\* elements of an assignment page: tag and class list
Blocks ==
    {Element(t, c, << >>, << >>, FALSE) :
        t \in {"div", "span"}, c \in SUBSET {Marker, "onlineAssignmentHeader"}}

\* <a> elements of a listing page; primary: inside a div of class table--primaryLink
Anchors ==
    {Element("a", {}, << "/courses/", "1", "/", "assignments", "/", "5" >>,
             << "hw" >>, TRUE),
     Element("a", {}, << "/courses/", "1", "/", "assignments", "/", "6", "/" >>,
             << "/", "hw", ".", "1" >>, TRUE),
     Element("a", {}, << "/courses/", "1" >>, << "Dashboard" >>, FALSE)}

Pages == Seqs(Blocks, MaxElems)

ListingPages == Seqs(Anchors, MaxLinks)

\* pages an assignment URL may show during a crawl or in single mode
AssignmentPages ==
    {<< >>,
     << Element("div", {Marker}, << >>, << >>, FALSE) >>,
     << Element("span", {Marker}, << >>, << >>, FALSE) >>,
     << Element("div", {"onlineAssignmentHeader"}, << >>, << >>, FALSE),
        Element("div", {"question", Marker}, << >>, << >>, FALSE) >>}

\* soup.find(tag, {"class": cls}): the first such element, 0 for None
RECURSIVE FindFrom(_, _, _, _)
FindFrom(content, i, tag, cls) ==
    IF i > Len(content) THEN 0
    ELSE IF content[i].tag = tag /\ cls \in content[i].classes THEN i
    ELSE FindFrom(content, i + 1, tag, cls)

\* soup.find(class_=cls): any tag
RECURSIVE FindClassFrom(_, _, _)
FindClassFrom(content, i, cls) ==
    IF i > Len(content) THEN 0
    ELSE IF cls \in content[i].classes THEN i
    ELSE FindClassFrom(content, i + 1, cls)

is_online_assignment_m(content) == FindClassFrom(content, 1, Marker) # 0

\* lines 55-61
is_online_assignment(content) == FindFrom(content, 1, "div", Marker) # 0

\* CSS_UPDATE, line 29: document.getElementsByClassName("onlineAssignment")
GetElementsByClassName(content, cls) ==
    {i \in 1..Len(content) : cls \in content[i].classes}

CSS_UPDATE == << "CSS_UPDATE" >>

\* lines 122-123: select("div.table--primaryLink a") and the list of url and name
RECURSIVE SelectLinks(_)
SelectLinks(content) ==
    IF content = << >> THEN << >>
    ELSE LET rest == SelectLinks(Tail(content)) IN
         IF content[1].tag = "a" /\ content[1].primary
         THEN << [url |-> content[1].href, name |-> content[1].text] >> \o rest
         ELSE rest

----------------------------------------------------------------------------
(* export_current_page, crawl_assignments, main *)

\* every URL of at most MaxUrlLen tokens
UrlTokens == {OTHER_HOST, "/courses/", "1", "assignments"}

Urls == Seqs(UrlTokens, MaxUrlLen)

\* URLs typed while a whole crawl is followed
CourseUrls ==
    {<< OTHER_HOST, "/courses/", "1", "2" >>,
     << BASE_URL, "/courses/", "2", "/", "assignments" >>,
     << OTHER_HOST, "/", "1" >>}

\* URLs typed in single-assignment mode
SingleUrls ==
    {<< BASE_URL, "/courses/", "1", "/", "assignments", "/", "5", "/", "outline/edit" >>,
     << BASE_URL, "/courses/", "1" >>}

FileNames == Seqs(NameTokens, MaxNameLen)

\* lines 64-89: the driver calls export_current_page makes on a page with this content
export_current_page(log, content, dir, assignment) ==
    IF is_online_assignment(content)
    THEN PrintToFile(ExecuteScript(GetContent(log, content), CSS_UPDATE),
                     PdfFile(dir, assignment.name))
    ELSE GetContent(log, content)

\* line 100-102: the while loop goes on and the URL has no course id
Unparsable(u) ==
    IF Contains(u, "assignments") THEN FALSE
    ELSE IF CourseMatches(u) = {} THEN TRUE
    ELSE CourseId(u) = << >>

\* line 97: the first prompt
AskCourseUrl(U) ==
    /\ pc = "crawl"
    /\ \E u \in U :
        /\ course_url' = u
        /\ asked' = u
    /\ prompts' = Append(prompts, "Gradescope course URL")
    /\ pc' = "normalize"
    /\ UNCHANGED << result, loginVars, folder, page, assignments, idx, driver_log,
                    exports, input_name, detected >>

\* lines 100-104 and 108-110: "Invalid course URL", and the prompt again
RepromptCourseUrl(U) ==
    /\ pc = "normalize"
    /\ Unparsable(course_url)
    /\ Len(prompts) < MaxPrompts
    /\ \E u \in U :
        /\ course_url' = u
        /\ asked' = u
    /\ prompts' = Append(prompts, "Gradescope course URL")
    /\ UNCHANGED << pc, result, loginVars, folder, page, assignments, idx, driver_log,
                    exports, input_name, detected >>

\* lines 100, 105-123: the loop ends, the course page is visited and its links read
VisitCourse(P) ==
    /\ pc = "normalize"
    /\ ~Unparsable(course_url)
    /\ course_url' = IF Contains(course_url, "assignments") THEN course_url
                     ELSE CourseAssignmentsUrl(CourseId(course_url))
    /\ \E content \in P :
        /\ driver_log' = GetContent(Visit(driver_log, course_url'), content)
        /\ page' = content
        /\ assignments' = SelectLinks(content)
    /\ idx' = 0
    /\ pc' = "loop"
    /\ UNCHANGED << result, loginVars, prompts, folder, asked, exports, input_name,
                    detected >>

\* lines 127-141: the next assignment's outline page is visited
VisitAssignment ==
    /\ pc = "loop"
    /\ idx < Len(assignments)
    /\ driver_log' = Visit(driver_log, OutlineUrl(assignments[idx + 1].url))
    /\ page' \in AssignmentPages
    /\ pc' = "export"
    /\ UNCHANGED << result, loginVars, prompts, folder, course_url, asked, assignments,
                    idx, exports, input_name, detected >>

\* lines 143-146: export_current_page(driver, folder, assignment, ...)
ExportAssignment ==
    /\ pc = "export"
    /\ exports' = Append(exports, assignments[idx + 1])
    /\ driver_log' = export_current_page(driver_log, page, folder, assignments[idx + 1])
    /\ detected' = is_online_assignment(page)
    /\ idx' = idx + 1
    /\ pc' = "loop"
    /\ UNCHANGED << result, loginVars, prompts, folder, course_url, asked, page,
                    assignments, input_name >>

\* line 127: the list is exhausted and crawl_assignments returns
CrawlReturn ==
    /\ pc = "loop"
    /\ idx = Len(assignments)
    /\ pc' = "done"
    /\ UNCHANGED << result, loginVars, exportVars, prompts >>

\* lines 158-170: one round of main's loop: prompt, visit, classify
MainAskUrl ==
    /\ pc = "main"
    /\ Len(prompts) < MaxPrompts
    /\ \E u \in SingleUrls, content \in AssignmentPages :
        /\ course_url' = u
        /\ asked' = u
        /\ driver_log' = GetContent(Visit(driver_log, u), content)
        /\ page' = content
        /\ detected' = is_online_assignment(content)
        /\ pc' = IF is_online_assignment(content) THEN "css" ELSE "main"
    /\ prompts' = Append(prompts, "Gradescope online assignment URL")
    /\ UNCHANGED << result, loginVars, folder, assignments, idx, exports, input_name >>

\* lines 171-184: the script, the file name prompt, and the print
MainExport ==
    /\ pc = "css"
    /\ \E name \in FileNames :
        /\ input_name' = name
        /\ driver_log' = PrintToFile(ExecuteScript(driver_log, CSS_UPDATE),
                                     PathJoin(folder, PdfName(name)))
    /\ prompts' = Append(prompts, "Output PDF filename")
    /\ pc' = "done"
    /\ UNCHANGED << result, loginVars, folder, course_url, asked, page, assignments,
                    idx, exports, detected >>

\* is_online_assignment applied to the page at hand
Classify ==
    /\ pc = "classify"
    /\ detected' = is_online_assignment(page)
    /\ pc' = "classified"
    /\ UNCHANGED << result, loginVars, prompts, folder, course_url, asked, page,
                    assignments, idx, driver_log, exports, input_name >>

\* the state main is in once GradescopeWebDriver(cookie_file=cookie_file) has returned
LoggedIn ==
    /\ result = "True"
    /\ cookie_file = "cookies.json"
    /\ session = [n \in CookieNames |-> "s1"]
    /\ jar = session
    /\ disk = [kind |-> "mapping", data |-> session]
    /\ email = None
    /\ password = None
    /\ add_calls = CookieCalls(session, "restore")
    /\ http = << Request("GET", "restored",
                         Resp("object", ValidWarning, FALSE, "none", TRUE, "none", FALSE)) >>
    /\ file_writes = << >>
    /\ token = None
    /\ prompts = << >>
    /\ driver_log = Visit(<< >>, << BASE_URL >>)

ExportStart ==
    /\ folder \in Folders
    /\ course_url = << >>
    /\ asked = << >>
    /\ page = NoPage
    /\ assignments = << >>
    /\ idx = 0
    /\ exports = << >>
    /\ input_name = << >>
    /\ detected = FALSE

\* main(export_all=True): crawl_assignments from its first line
InitCrawl == pc = "crawl" /\ LoggedIn /\ ExportStart

NextCrawl ==
    \/ AskCourseUrl(CourseUrls)
    \/ RepromptCourseUrl(CourseUrls)
    \/ VisitCourse(ListingPages)
    \/ VisitAssignment
    \/ ExportAssignment
    \/ CrawlReturn

SpecCrawl == InitCrawl /\ [][NextCrawl]_vars

\* lines 97-123 of crawl_assignments, over every URL of at most MaxUrlLen tokens
NextNormalize ==
    \/ AskCourseUrl(Urls)
    \/ RepromptCourseUrl(Urls)
    \/ VisitCourse(ListingPages)

SpecNormalize == InitCrawl /\ [][NextNormalize]_vars

\* main(export_all=False)
InitMain == pc = "main" /\ LoggedIn /\ ExportStart

NextMain ==
    \/ MainAskUrl
    \/ MainExport

SpecMain == InitMain /\ [][NextMain]_vars

\* is_online_assignment over every page of at most MaxElems elements
InitClassify ==
    /\ pc = "classify"
    /\ LoggedIn
    /\ folder = << "pdf" >>
    /\ course_url = << >>
    /\ asked = << >>
    /\ page \in Pages
    /\ assignments = << >>
    /\ idx = 0
    /\ exports = << >>
    /\ input_name = << >>
    /\ detected = FALSE

NextClassify == Classify

SpecClassify == InitClassify /\ [][NextClassify]_vars

----------------------------------------------------------------------------
(* Properties of the export *)

\* the page has a div of class onlineAssignment
HasMarkerDiv(content) ==
    \E i \in 1..Len(content) : content[i].tag = "div" /\ Marker \in content[i].classes

\* positions of the driver calls of one kind
Calls(op) == {i \in 1..Len(driver_log) : driver_log[i].op = op}

\* driver calls made after the course page was read (calls 1 to 3 are login's visit of
\* BASE_URL, the visit of the course page and the read of its source)
CrawlCalls(op) == {i \in Calls(op) : i > 3}

\* the assignment links of the listing page, in page order
ListedLinks(content) == {i \in 1..Len(content) : content[i].tag = "a" /\ content[i].primary}

KthLink(content, k) ==
    CHOOSE i \in ListedLinks(content) :
        Cardinality({j \in ListedLinks(content) : j <= i}) = k

\* the attempt a driver call belongs to: the number of outline visits up to it
AttemptOf(i) == Cardinality({j \in CrawlCalls("get") : j <= i})

\* the assignment's URL with outline/edit appended
WithOutlineEdit(href) ==
    LET url == << BASE_URL >> \o href
        bare == IF Last(url) = "/" THEN SubSeq(url, 1, Len(url) - 1) ELSE url
    IN  bare \o << "/", "outline/edit" >>

\* C4: for a listing page with n assignment links the crawl makes exactly n export
\* attempts, one per link in listing order, each after a visit of the link's URL with
\* outline/edit appended; each attempt on an online assignment writes exactly one PDF,
\* to the folder joined with the link's text plus ".pdf".
C4_OneAttemptPerLink ==
    pc = "done" =>
        LET listing == driver_log[3].content
            n == Cardinality(ListedLinks(listing))
            link(k) == listing[KthLink(listing, k)]
        IN  /\ Len(exports) = n
            /\ \A k \in 1..n : exports[k] = [url |-> link(k).href, name |-> link(k).text]
            /\ Cardinality(CrawlCalls("get")) = n
            /\ Cardinality(CrawlCalls("page_source")) = n
            /\ \A i \in CrawlCalls("get") :
                /\ driver_log[i].arg = WithOutlineEdit(link(AttemptOf(i)).href)
                /\ driver_log[i + 1].op = "page_source"
            /\ \A i \in CrawlCalls("page_source") :
                LET writes == {j \in CrawlCalls("print") : AttemptOf(j) = AttemptOf(i)} IN
                IF HasMarkerDiv(driver_log[i].content)
                THEN /\ Cardinality(writes) = 1
                     /\ \A j \in writes :
                         driver_log[j].arg =
                             PathJoin(folder, link(AttemptOf(i)).text \o << ".", "pdf" >>)
                ELSE writes = {}

C4_Witness ==
    /\ pc = "done"
    /\ Len(exports) = 2
    /\ exports[1] # exports[2]
    /\ Cardinality(CrawlCalls("print")) = 2
    /\ Len(driver_log[3].content) > 2

\* C5: export_current_page on a page that is not an online assignment does nothing
\* (no error, no script, no print, no file); on an online assignment it runs the
\* script exactly once, and before the only print.
C5_ExportOnlyOnlineAssignments ==
    pc \in {"loop", "export", "done"} =>
        /\ result = "True"
        /\ Cardinality(CrawlCalls("page_source")) = Len(exports)
        /\ \A i \in CrawlCalls("page_source") :
            IF HasMarkerDiv(driver_log[i].content)
            THEN /\ i + 2 <= Len(driver_log)
                 /\ driver_log[i + 1] = Call("execute_script", CSS_UPDATE, << >>)
                 /\ driver_log[i + 2].op = "print"
                 /\ i + 2 = Len(driver_log) \/ driver_log[i + 3].op = "get"
            ELSE i = Len(driver_log) \/ driver_log[i + 1].op = "get"
        /\ \A i \in CrawlCalls("execute_script") : driver_log[i - 1].op = "page_source"
        /\ \A i \in CrawlCalls("print") : driver_log[i - 1].op = "execute_script"

C5_Witness ==
    /\ pc = "loop"
    /\ Len(exports) = 2
    /\ Cardinality(CrawlCalls("print")) = 1
    /\ \E i \in CrawlCalls("page_source") :
        /\ ~HasMarkerDiv(driver_log[i].content)
        /\ driver_log[i].content # << >>

\* https://host/courses/12345: scheme and host, "/courses/", digits
IsCourseUrl(u) ==
    /\ Len(u) >= 3
    /\ u[1] \in {OTHER_HOST, BASE_URL}
    /\ u[2] = "/courses/"
    /\ \A i \in 3..Len(u) : u[i] \in Digits

\* the URL contains "assignments" or matches .../courses/<digits>
Conforming(u) ==
    \/ Contains(u, "assignments")
    \/ \E i \in 1..(Len(u) - 1) : u[i] = "/courses/" /\ u[i + 1] \in Digits

VisitedCourseUrl == driver_log[2].arg

\* C6 as stated: https://host/courses/12345 is visited as
\* https://host/courses/12345/assignments, on the host of the input.
C6_HostPreserved ==
    pc = "loop" =>
        /\ IsCourseUrl(asked) => VisitedCourseUrl = asked \o << "/", "assignments" >>
        /\ Contains(asked, "assignments") => VisitedCourseUrl = asked

C6_Visited ==
    pc = "loop" =>
        /\ Conforming(asked)
        /\ driver_log[2].op = "get"
        /\ Contains(asked, "assignments") => VisitedCourseUrl = asked
        /\ ~Contains(asked, "assignments") =>
            /\ Len(VisitedCourseUrl) >= 5
            /\ SubSeq(VisitedCourseUrl, 1, 2) = << BASE_URL, "/courses/" >>
            /\ SubSeq(VisitedCourseUrl, Len(VisitedCourseUrl) - 1, Len(VisitedCourseUrl))
                   = << "/", "assignments" >>
            /\ \A i \in 3..(Len(VisitedCourseUrl) - 2) : VisitedCourseUrl[i] \in Digits
        /\ (IsCourseUrl(asked) /\ ~Contains(asked, "assignments")) =>
            VisitedCourseUrl = << BASE_URL, "/courses/" >> \o SubSeq(asked, 3, Len(asked))
                                   \o << "/", "assignments" >>

C6_Step ==
    /\ (pc = "normalize" /\ ~Conforming(course_url)) =>
        /\ pc' = "normalize"
        /\ Len(prompts') = Len(prompts) + 1
        /\ driver_log' = driver_log
        /\ Len(driver_log) = 1
        /\ result' = "True"
    /\ (pc = "normalize" /\ Conforming(course_url)) =>
        /\ pc' = "loop"
        /\ prompts' = prompts
        /\ asked' = asked
        /\ Len(driver_log') = 3
    /\ C6_Visited'

\* C6, amended: https://host/courses/12345 is visited as
\* https://www.gradescope.com/courses/12345/assignments (BASE_URL whatever the host
\* typed, course id kept); a URL containing "assignments" is visited unchanged; any other
\* URL leads to a new prompt, without error and without navigation, and the loop ends
\* as soon as a conforming URL is typed.
C6_NormalizesOntoBaseUrl == [][C6_Step]_vars

C6_Witness ==
    /\ pc = "loop"
    /\ Len(prompts) >= 2
    /\ asked = << OTHER_HOST, "/courses/", "1", "1" >>
    /\ VisitedCourseUrl = << BASE_URL, "/courses/", "1", "1", "/", "assignments" >>

\* C7 as stated: true exactly when some element, of any tag, carries the class, which
\* is the test getElementsByClassName("onlineAssignment")[0] relies on.
C7_AnyTag ==
    pc = "classified" => (detected <=> GetElementsByClassName(page, Marker) # {})

\* C7, amended: is_online_assignment is true exactly when some div carries the class
\* onlineAssignment (false, without error, for any other page, the empty one too); a
\* page it accepts has an element for getElementsByClassName("onlineAssignment")[0],
\* but not every page with such an element is accepted.
C7_DivOnly ==
    pc = "classified" =>
        /\ detected <=> HasMarkerDiv(page)
        /\ detected => GetElementsByClassName(page, Marker) # {}
        /\ result = "True"

C7_Witness ==
    /\ pc = "classified"
    /\ ~detected
    /\ Len(page) = 2
    /\ page[1].tag = "span"
    /\ Marker \in page[1].classes

\* the name ends in ".pdf" and its last component has something but dots before that
HasPdfExtension(name) ==
    /\ Len(name) >= 3
    /\ SubSeq(name, Len(name) - 1, Len(name)) = << ".", "pdf" >>
    /\ \E k \in 1..(Len(name) - 2) :
        /\ name[k] \notin {".", "/"}
        /\ \A j \in k..(Len(name) - 2) : name[j] # "/"

\* C8: in single-assignment mode a URL whose page is not an online assignment leads
\* to a new prompt, with no script and no PDF; the loop ends at the first page that
\* is one, then the script runs once and one PDF is written, to the folder joined with
\* the name typed, ".pdf" added when the name lacks that extension.
C8_SingleModeExportsOnce ==
    /\ \A i \in Calls("page_source") :
        IF HasMarkerDiv(driver_log[i].content)
        THEN /\ pc \in {"css", "done"}
             /\ \A j \in Calls("get") : j < i
        ELSE /\ driver_log[i - 1].op = "get"
             /\ i = Len(driver_log) \/ driver_log[i + 1].op = "get"
    /\ Cardinality(Calls("get")) = 1 + Cardinality(Calls("page_source"))
    /\ pc = "main" =>
        /\ Len(prompts) = Cardinality(Calls("page_source"))
        /\ \A i \in Calls("page_source") : ~HasMarkerDiv(driver_log[i].content)
    /\ pc # "done" => Calls("execute_script") = {} /\ Calls("print") = {}
    /\ pc = "done" =>
        /\ Calls("execute_script") = {Len(driver_log) - 1}
        /\ Calls("print") = {Len(driver_log)}
        /\ HasMarkerDiv(driver_log[Len(driver_log) - 2].content)
        /\ Last(driver_log).arg =
               PathJoin(folder, IF HasPdfExtension(input_name) THEN input_name
                                ELSE input_name \o << ".", "pdf" >>)

C8_Witness ==
    /\ pc = "done"
    /\ Cardinality(Calls("page_source")) = 2
    /\ input_name = << ".", "pdf" >>
    /\ Last(driver_log).arg = << "pdf", "/", ".", "pdf", ".", "pdf" >>

====
